---- MODULE Spec2Model ----
(***************************************************************************)
(* Model of oncourt/bin/augment_games_data.py (Python 2): the reference    *)
(* mappers, the score parser, Match / MatchStats and the load() / dump()   *)
(* pipeline of AugmentedGamesfileGenerator.                                *)
(*                                                                         *)
(* Python strings are sequences of one-character strings, so that split,   *)
(* strip, int() and the byte-wise string comparison are computed the way   *)
(* the interpreter computes them.  The program's own column names, which   *)
(* no operation takes apart, are kept as one element each.                 *)
(***************************************************************************)
EXTENDS Integers, Sequences, FiniteSets, TLC

\* ------------------------------------------------------------------------
\* Python string primitives
\* ------------------------------------------------------------------------

\* ord(c) for the characters of the model's alphabet (ASCII)
Ord(c) ==
  CASE c = " " -> 32 [] c = "(" -> 40 [] c = ")" -> 41 [] c = "-" -> 45
    [] c = "." -> 46 [] c = "/" -> 47
    [] c = "0" -> 48 [] c = "1" -> 49 [] c = "2" -> 50 [] c = "3" -> 51
    [] c = "4" -> 52 [] c = "5" -> 53 [] c = "6" -> 54 [] c = "7" -> 55
    [] c = "8" -> 56 [] c = "9" -> 57 [] c = ":" -> 58
    [] c = "A" -> 65 [] c = "B" -> 66 [] c = "C" -> 67 [] c = "D" -> 68
    [] c = "F" -> 70 [] c = "H" -> 72 [] c = "L" -> 76 [] c = "N" -> 78
    [] c = "Q" -> 81 [] c = "U" -> 85 [] c = "W" -> 87
    [] OTHER -> 120

DigitChars == {"0", "1", "2", "3", "4", "5", "6", "7", "8", "9"}

\* str < str: lexicographic on the character codes
RECURSIVE StrLess(_, _)
StrLess(a, b) ==
  IF b = <<>> THEN FALSE
  ELSE IF a = <<>> THEN TRUE
  ELSE IF Head(a) = Head(b) THEN StrLess(Tail(a), Tail(b))
  ELSE Ord(Head(a)) < Ord(Head(b))

\* s.split(sep) for a one-character separator: always count(sep)+1 parts
RECURSIVE Split(_, _)
Split(s, sep) ==
  IF s = <<>> THEN << <<>> >>
  ELSE IF Head(s) = sep THEN << <<>> >> \o Split(Tail(s), sep)
  ELSE LET rest == Split(Tail(s), sep)
       IN  << <<Head(s)>> \o Head(rest) >> \o Tail(rest)

\* sep.join(parts)
RECURSIVE Join(_, _)
Join(parts, sep) ==
  IF parts = <<>> THEN <<>>
  ELSE IF Len(parts) = 1 THEN Head(parts)
  ELSE Head(parts) \o sep \o Join(Tail(parts), sep)

RECURSIVE LStrip(_)
LStrip(s) == IF s # <<>> /\ Head(s) = " " THEN LStrip(Tail(s)) ELSE s

RECURSIVE RStrip(_)
RStrip(s) ==
  IF s # <<>> /\ s[Len(s)] = " " THEN RStrip(SubSeq(s, 1, Len(s) - 1)) ELSE s

\* s.strip()
Strip(s) == LStrip(RStrip(s))

\* c is the first character of s, where "c in s" is meant
Contains_AtStart(s, c) == s # <<>> /\ s[1] = c

\* c in s
Contains(s, c) == \E i \in 1..Len(s) : s[i] = c

\* s.index(c): 0-based position of the first c (callers test Contains first)
IndexOf(s, c) == (CHOOSE i \in 1..Len(s) : s[i] = c /\ \A j \in 1..(i-1) : s[j] # c) - 1

\* s.replace(c, "") for a one-character c
RECURSIVE RemoveChar(_, _)
RemoveChar(s, c) ==
  IF s = <<>> THEN <<>>
  ELSE IF Head(s) = c THEN RemoveChar(Tail(s), c)
  ELSE <<Head(s)>> \o RemoveChar(Tail(s), c)

IsPrefix(p, s) == Len(p) <= Len(s) /\ SubSeq(s, 1, Len(p)) = p

\* s.replace(pat, "") for a non-empty pat
RECURSIVE RemoveSub(_, _)
RemoveSub(s, pat) ==
  IF s = <<>> THEN <<>>
  ELSE IF IsPrefix(pat, s) THEN RemoveSub(SubSeq(s, Len(pat) + 1, Len(s)), pat)
  ELSE <<Head(s)>> \o RemoveSub(Tail(s), pat)

AllDigits(s) == s # <<>> /\ \A i \in 1..Len(s) : s[i] \in DigitChars

\* int(s) succeeds: optional surrounding blanks, optional minus sign, digits
IsInt(s) ==
  LET t == Strip(s)
  IN  IF t # <<>> /\ Head(t) = "-" THEN AllDigits(Tail(t)) ELSE AllDigits(t)

RECURSIVE DigitsVal(_)
DigitsVal(s) ==
  IF s = <<>> THEN 0
  ELSE DigitsVal(SubSeq(s, 1, Len(s) - 1)) * 10 + (Ord(s[Len(s)]) - 48)

\* int(s), where IsInt(s)
StrToInt(s) ==
  LET t == Strip(s)
  IN  IF Head(t) = "-" THEN 0 - DigitsVal(Tail(t)) ELSE DigitsVal(t)

DigitChar(d) ==
  CASE d = 0 -> "0" [] d = 1 -> "1" [] d = 2 -> "2" [] d = 3 -> "3"
    [] d = 4 -> "4" [] d = 5 -> "5" [] d = 6 -> "6" [] d = 7 -> "7"
    [] d = 8 -> "8" [] d = 9 -> "9"

RECURSIVE NatToStr(_)
NatToStr(n) ==
  IF n < 10 THEN <<DigitChar(n)>> ELSE NatToStr(n \div 10) \o <<DigitChar(n % 10)>>

\* "%s" % n for an int n
IntToStr(n) == IF n < 0 THEN <<"-">> \o NatToStr(0 - n) ELSE NatToStr(n)

\* an exception propagating out of a function
Raised == [ok |-> FALSE]

\* None and a present value
None == [some |-> FALSE, val |-> <<>>]
Some(v) == [some |-> TRUE, val |-> v]

\* ------------------------------------------------------------------------
\* Dates
\* ------------------------------------------------------------------------

\* the two-digit-year pivot of convertOnCourtDateToYmd
YearPivot == 45

\* convertOnCourtDateToYmd with > for >= in the test of the year
convertOnCourtDateToYmd_AbovePivot(dateStr) ==
  LET dateParts == Split(Head(Split(dateStr, " ")), "/")
  IN  IF Len(dateParts) < 3 \/ ~IsInt(dateParts[3]) THEN Raised
      ELSE LET year == StrToInt(dateParts[3])
           IN  [ok  |-> TRUE,
                val |-> IntToStr(IF year > YearPivot THEN year + 1900 ELSE year + 2000)
                        \o <<"/">> \o dateParts[1] \o <<"/">> \o dateParts[2]]

\* convertOnCourtDateToYmd(dateStr): "MM/DD/YY HH:MM:SS" -> "YYYY/MM/DD";
\* raises IndexError with fewer than three "/" parts, ValueError when the
\* third part is no int
convertOnCourtDateToYmd(dateStr) ==
  LET dateParts == Split(Head(Split(dateStr, " ")), "/")
  IN  IF Len(dateParts) < 3 \/ ~IsInt(dateParts[3]) THEN Raised
      ELSE LET year == StrToInt(dateParts[3])
           IN  [ok  |-> TRUE,
                val |-> IntToStr(IF year >= YearPivot THEN year + 1900 ELSE year + 2000)
                        \o <<"/">> \o dateParts[1] \o <<"/">> \o dateParts[2]]

IsLeap(y) == (y % 4 = 0 /\ y % 100 # 0) \/ y % 400 = 0

DaysInMonth(y, m) ==
  IF m = 2 THEN (IF IsLeap(y) THEN 29 ELSE 28)
  ELSE IF m \in {4, 6, 9, 11} THEN 30 ELSE 31

\* the text forms "%m" and "%d" accept: one digit 1-9, or two digits
OneOrTwoDigits(s) ==
  /\ Len(s) \in {1, 2}
  /\ AllDigits(s)
  /\ DigitsVal(s) >= 1

\* datetime.strptime(s, "%Y/%m/%d") succeeds
StrpTimeOk(s) ==
  LET p == Split(s, "/")
  IN  /\ Len(p) = 3
      /\ Len(p[1]) = 4 /\ AllDigits(p[1]) /\ DigitsVal(p[1]) >= 1
      /\ OneOrTwoDigits(p[2]) /\ DigitsVal(p[2]) <= 12
      /\ OneOrTwoDigits(p[3])
      /\ DigitsVal(p[3]) <= DaysInMonth(DigitsVal(p[1]), DigitsVal(p[2]))

\* ordinal day number of a calendar date (proleptic Gregorian)
DayNumber(y, m, d) ==
  LET yy  == IF m <= 2 THEN y - 1 ELSE y
      era == yy \div 400
      yoe == yy - era * 400
      mp  == IF m > 2 THEN m - 3 ELSE m + 9
      doy == (153 * mp + 2) \div 5 + d - 1
      doe == yoe * 365 + yoe \div 4 - yoe \div 100 + doy
  IN  era * 146097 + doe

\* datetime.strptime(s, "%Y/%m/%d") as a day number, where StrpTimeOk(s)
StrpTime(s) ==
  LET p == Split(s, "/")
  IN  DayNumber(DigitsVal(p[1]), DigitsVal(p[2]), DigitsVal(p[3]))

\* PlayerInfo(_id, name, dob): raises when the date of birth does not convert
PlayerInfo(id, name, dob) ==
  LET c == convertOnCourtDateToYmd(dob)
  IN  IF ~c.ok THEN Raised
      ELSE [ok |-> TRUE, val |-> [id |-> id, name |-> name, dob |-> c.val]]

\* PlayerInfo.getAgeAsOf(asOfDateStr): the timedelta's .days (the age is this
\* number / 365.0); raises TypeError on None, ValueError on an unparsable date
getAgeAsOf(player, asOfDate) ==
  IF ~asOfDate.some \/ ~StrpTimeOk(asOfDate.val) \/ ~StrpTimeOk(player.dob)
  THEN Raised
  ELSE [ok |-> TRUE, val |-> StrpTime(asOfDate.val) - StrpTime(player.dob)]

\* "%.1f" % (days / 365.0): days/365 is never halfway between two tenths
\* (4 * days = 73 * (2k + 1) has no solution), so rounding is to the nearest
FormatAge(days) ==
  LET a == IF days < 0 THEN 0 - days ELSE days
      t == (20 * a + 365) \div 730
  IN  (IF days < 0 THEN <<"-">> ELSE <<>>)
      \o NatToStr(t \div 10) \o <<".">> \o <<DigitChar(t % 10)>>

\* ------------------------------------------------------------------------
\* Reference mappers.  A data row is the list of its comma-separated
\* elements; idPos / namePos are positions in it (1-based here).
\* ------------------------------------------------------------------------

EmptyDict == [k \in {} |-> <<>>]

\* d[k] = v
DictSet(d, k, v) == [x \in (DOMAIN d) \cup {k} |-> IF x = k THEN v ELSE d[x]]

\* IDToNameMapper.load, the loop over the data rows
RECURSIVE IDToNameMapper_load(_, _, _, _)
IDToNameMapper_load(rawDataList, idPos, namePos, map) ==
  IF rawDataList = <<>> THEN map
  ELSE LET elements == Head(rawDataList)
           pID      == elements[idPos]
           pName    == elements[namePos]
       IN  IDToNameMapper_load(Tail(rawDataList), idPos, namePos,
             IF pID # <<>> /\ pName # <<>> THEN DictSet(map, pID, pName) ELSE map)

\* PlayerMapper.load, the loop over self._map building the PlayerInfo objects;
\* ids is the set of player ids still to visit
RECURSIVE PlayerMapper_build(_, _, _, _)
PlayerMapper_build(ids, map, dobMap, id2playerinfo) ==
  IF ids = {} THEN [ok |-> TRUE, val |-> id2playerinfo]
  ELSE LET playerid == CHOOSE x \in ids : TRUE
           rest     == ids \ {playerid}
           name     == map[playerid]
       IN  IF Contains(name, "/") THEN
             PlayerMapper_build(rest, map, dobMap, id2playerinfo)
           ELSE IF playerid \notin DOMAIN dobMap THEN
             PlayerMapper_build(rest, map, dobMap, id2playerinfo)
           ELSE LET pi == PlayerInfo(playerid, name, dobMap[playerid])
                IN  IF ~pi.ok THEN Raised
                    ELSE PlayerMapper_build(rest, map, dobMap,
                           DictSet(id2playerinfo, playerid, pi.val))

\* PlayerMapper.load on rows <<ID_P, NAME_P, DATE_P>>
PlayerMapper_load(rawDataList) ==
  LET map    == IDToNameMapper_load(rawDataList, 1, 2, EmptyDict)
      dobMap == IDToNameMapper_load(rawDataList, 1, 3, EmptyDict)
  IN  PlayerMapper_build(DOMAIN map, map, dobMap, EmptyDict)

\* PlayerMapper.getPlayerInfo(_id): the PlayerInfo or None
getPlayerInfo(id2playerinfo, id) ==
  IF id \in DOMAIN id2playerinfo THEN Some(id2playerinfo[id]) ELSE None

\* TourMapper.load, the loop over rows <<ID_T, NAME_T, ID_C_T, DATE_T, COUNTRY_T>>.
\* surface is the loop's local variable: a failed court lookup only prints,
\* so the variable keeps the previous row's value, or is still unbound on
\* the first row and the TourInfo(...) call raises UnboundLocalError.
RECURSIVE TourMapper_load(_, _, _, _, _)
TourMapper_load(rawDataList, courtMap, surface, map, toursMap) ==
  IF rawDataList = <<>> THEN [ok |-> TRUE, map |-> map, toursMap |-> toursMap]
  ELSE LET elements == Head(rawDataList)
           pID      == elements[1]
           pName    == elements[2]
           date     == elements[4]
           country  == elements[5]
           surf     == IF elements[3] \in DOMAIN courtMap
                       THEN Some(courtMap[elements[3]]) ELSE surface
           newMap   == IF pID # <<>> /\ pName # <<>>
                       THEN DictSet(map, pID, pName) ELSE map
       IN  IF ~surf.some THEN Raised
           ELSE TourMapper_load(Tail(rawDataList), courtMap, surf, newMap,
                  DictSet(toursMap, pID,
                    [id |-> pID, name |-> pName, surface |-> surf.val,
                     date |-> date, country |-> country]))

\* ------------------------------------------------------------------------
\* ResultInfo and the score parser
\* ------------------------------------------------------------------------

\* ResultInfo()
NewResultInfo ==
  [winnerSetsWon |-> 0, loserSetsWon |-> 0,
   winnerSetGames |-> <<>>, loserSetGames |-> <<>>]

\* ResultInfo.addSet(winnerGames, loserGames).  The caller passes the two
\* game counts as the strings it split off the score, so ">" is the string
\* comparison; int() then raises ValueError on a count that is no number.
addSet(ri, winnerGames, loserGames) ==
  IF ~IsInt(winnerGames) \/ ~IsInt(loserGames) THEN Raised
  ELSE [ok  |-> TRUE,
        val |-> [winnerSetsWon  |-> ri.winnerSetsWon
                                    + (IF StrLess(loserGames, winnerGames) THEN 1 ELSE 0),
                 loserSetsWon   |-> ri.loserSetsWon
                                    + (IF StrLess(loserGames, winnerGames) THEN 0 ELSE 1),
                 winnerSetGames |-> Append(ri.winnerSetGames, StrToInt(winnerGames)),
                 loserSetGames  |-> Append(ri.loserSetGames, StrToInt(loserGames))]]

RECURSIVE SumSeq(_)
SumSeq(q) == IF q = <<>> THEN 0 ELSE Head(q) + SumSeq(Tail(q))

getWinnerGamesWon(ri) == SumSeq(ri.winnerSetGames)
getLoserGamesWon(ri) == SumSeq(ri.loserSetGames)
getTotalGamesPlayed(ri) == getWinnerGamesWon(ri) + getLoserGamesWon(ri)

getWinnerTieBreaksWon(ri) ==
  Cardinality({i \in 1..Len(ri.winnerSetGames) :
                 ri.winnerSetGames[i] = 7 /\ ri.loserSetGames[i] = 6})

getLoserTieBreaksWon(ri) ==
  Cardinality({i \in 1..Len(ri.winnerSetGames) :
                 ri.winnerSetGames[i] = 6 /\ ri.loserSetGames[i] = 7})

\* ResultInfo.__str__: eight comma-separated fields
ResultInfo_str(ri) ==
  << IntToStr(ri.winnerSetsWon), IntToStr(ri.loserSetsWon),
     IntToStr(getWinnerGamesWon(ri)), IntToStr(getLoserGamesWon(ri)),
     IntToStr(getTotalGamesPlayed(ri)),
     IntToStr(getWinnerTieBreaksWon(ri)), IntToStr(getLoserTieBreaksWon(ri)),
     IntToStr(getWinnerTieBreaksWon(ri) + getLoserTieBreaksWon(ri)) >>

\* games[i] < 6 in Match._setResultInfo: games[i] is a str and 6 an int, and
\* Python 2 orders every int before every str, so the test is never true
GamesBelowSix(games) == FALSE

\* ParseSet without the clean-up of the tie-break annotation
ParseSet_NoCleanUp(ri, setResult) ==
  LET games == Split(setResult, "-")
  IN  IF Len(games) # 2 THEN Raised
      ELSE IF GamesBelowSix(games[1]) /\ GamesBelowSix(games[2]) THEN Raised
      ELSE addSet(ri, games[1], games[2])

\* the body of the for-loop of Match._setResultInfo for one set token
ParseSet(ri, setResult) ==
  LET games == Split(setResult, "-")
  IN  IF Len(games) # 2 THEN Raised
      ELSE IF GamesBelowSix(games[1]) /\ GamesBelowSix(games[2]) THEN Raised
      ELSE LET g2 == IF Contains(games[2], "(")
                     THEN SubSeq(games[2], 1, IndexOf(games[2], "("))
                     ELSE games[2]
           IN  addSet(ri, games[1], g2)

RECURSIVE ParseSets(_, _)
ParseSets(ri, setResults) ==
  IF setResults = <<>> THEN [ok |-> TRUE, val |-> ri]
  ELSE LET r == ParseSet(ri, Head(setResults))
       IN  IF ~r.ok THEN Raised ELSE ParseSets(r.val, Tail(setResults))

\* Match._setResultInfo without the test of the number of sets
setResultInfo_AnyLength(resultStr) ==
  ParseSets(NewResultInfo, Split(resultStr, " "))

\* Match._setResultInfo(resultStr): the ResultInfo, or an exception
setResultInfo(resultStr) ==
  LET setResults == Split(resultStr, " ")
  IN  IF Len(setResults) < 2 THEN Raised
      ELSE ParseSets(NewResultInfo, setResults)

\* ------------------------------------------------------------------------
\* Match
\* ------------------------------------------------------------------------

\* Match.__init__(winnerI, loserI, tour, tround, surf, country, result, gdate):
\* a date that does not convert leaves _date None; a score that does not
\* parse raises
NewMatch(winnerI, loserI, tour, tround, surf, country, result, gdate) ==
  LET d  == convertOnCourtDateToYmd(gdate)
      ri == setResultInfo(Strip(result))
  IN  IF ~ri.ok THEN Raised
      ELSE [ok  |-> TRUE,
            val |-> [winner |-> winnerI, loser |-> loserI, tour |-> tour,
                     round |-> tround, surface |-> surf, country |-> country,
                     date |-> IF d.ok THEN Some(d.val) ELSE None,
                     result |-> ri.val]]

\* Match.isValid (the result of a constructed Match is always a ResultInfo)
isValid(m) ==
  /\ Len(m.winner.name) # 0 /\ Len(m.winner.dob) # 0
  /\ Len(m.loser.name) # 0 /\ Len(m.loser.dob) # 0
  /\ Len(m.tour) # 0 /\ Len(m.round) # 0 /\ Len(m.surface) # 0
  /\ Len(m.country) # 0

\* Match.hasDate
hasDate(m) == m.date.some

\* Match.__str__: the list of its comma-separated fields; raises when an age
\* cannot be computed from _date
Match_str(m) ==
  LET wa == getAgeAsOf(m.winner, m.date)
      la == getAgeAsOf(m.loser, m.date)
  IN  IF ~wa.ok \/ ~la.ok THEN Raised
      ELSE [ok  |-> TRUE,
            val |-> << m.winner.name, FormatAge(wa.val),
                       m.loser.name, FormatAge(la.val),
                       m.tour, m.round, m.surface, m.country >>
                    \o ResultInfo_str(m.result)
                    \o << m.date.val >>]

\* Match.HEADER.split(",")
MatchHeader ==
  << <<"WName">>, <<"Wage">>, <<"LName">>, <<"Lage">>, <<"TourName">>,
     <<"Surface">>, <<"Country">>, <<"Round">>, <<"WSets">>, <<"LSets">>,
     <<"WGames">>, <<"LGames">>, <<"TotalGames">>, <<"WTieBreaks">>,
     <<"LTieBreaks">>, <<"TotalTieBreaks">>, <<"Date">> >>

\* ------------------------------------------------------------------------
\* PlayerStats and MatchStats
\* ------------------------------------------------------------------------

\* PlayerStats.PLAYER_STATS_COUNT
PLAYER_STATS_COUNT == 18

\* MatchStats.HEADER.split(",")
StatsHeader ==
  << "firstSvIn", "firstSvTot", "aces", "doubleFaults", "unforcedErrs",
     "firstSvPtsWon", "secondSvPtsWon", "winners", "breakPtsWon",
     "breakPtsTot", "recvPtsWon", "recvPtsTot", "netApproachWon",
     "netApproachTot", "totPtsWon", "fastestServeKph", "avgFirstSvKph",
     "avgSecondSvKph" >>

\* intorzero(i) succeeds / its value
IntOrZeroOk(i) == Strip(i) = <<>> \/ IsInt(Strip(i))
intorzero(i) == IF Strip(i) = <<>> THEN 0 ELSE StrToInt(Strip(i))

\* PlayerStats.__init__ on its 18 arguments, in the order of the signature
PlayerStats(a) ==
  IF \E i \in 1..PLAYER_STATS_COUNT : ~IntOrZeroOk(a[i]) THEN Raised
  ELSE [ok  |-> TRUE,
        val |-> [firstServesIn |-> intorzero(a[1]), firstServes |-> intorzero(a[2]),
                 aces |-> intorzero(a[3]), doubleFaults |-> intorzero(a[4]),
                 unforcedErrs |-> intorzero(a[5]),
                 firstServePtsWon |-> intorzero(a[6]),
                 secondServePtsWon |-> intorzero(a[7]),
                 winners |-> intorzero(a[8]),
                 breakPtsWon |-> intorzero(a[9]), breakPts |-> intorzero(a[10]),
                 recvPtsWon |-> intorzero(a[11]), recvPts |-> intorzero(a[12]),
                 netApproachesWon |-> intorzero(a[13]),
                 netApproaches |-> intorzero(a[14]),
                 totPtsWon |-> intorzero(a[15]),
                 fastestServeKph |-> intorzero(a[16]),
                 avgFirstServeKph |-> intorzero(a[17]),
                 avgSecondServeKph |-> intorzero(a[18])]]

\* PlayerStats.validate() with > for >= in the first-serve rule
PlayerStats_validate_Strict(p) ==
  (IF p.firstServesIn > p.firstServes THEN <<"firstSvIn", "firstSvTot">> ELSE <<>>)
  \o (IF p.aces >= p.firstServesIn THEN <<"aces">> ELSE <<>>)
  \o (IF p.doubleFaults > p.firstServes THEN <<"doubleFaults">> ELSE <<>>)
  \o (IF p.firstServePtsWon > p.firstServesIn THEN <<"firstSvPtsWon">> ELSE <<>>)
  \o (IF p.secondServePtsWon > p.firstServes - p.firstServesIn
      THEN <<"secondSvPtsWon">> ELSE <<>>)
  \o (IF p.winners > p.totPtsWon THEN <<"winners">> ELSE <<>>)
  \o (IF p.breakPtsWon > p.breakPts \/ p.breakPtsWon >= p.totPtsWon
      THEN <<"breakPtsWon">> ELSE <<>>)
  \o (IF p.recvPtsWon > p.recvPts \/ p.recvPtsWon >= p.totPtsWon
      THEN <<"recvPtsWon">> ELSE <<>>)
  \o (IF p.netApproachesWon > p.netApproaches \/ p.netApproachesWon >= p.totPtsWon
      THEN <<"netApproachWon">> ELSE <<>>)
  \o (IF p.avgFirstServeKph >= p.fastestServeKph
      THEN <<"avgFirstSvKph", "fastestServeKph">> ELSE <<>>)
  \o (IF p.avgSecondServeKph >= p.fastestServeKph
         \/ p.avgSecondServeKph > p.avgFirstServeKph
      THEN <<"avgSecondSvKph", "fastestServeKph">> ELSE <<>>)

\* PlayerStats.validate(): the list of suspect statistic names, in order
PlayerStats_validate(p) ==
  (IF p.firstServesIn >= p.firstServes THEN <<"firstSvIn", "firstSvTot">> ELSE <<>>)
  \o (IF p.aces >= p.firstServesIn THEN <<"aces">> ELSE <<>>)
  \o (IF p.doubleFaults > p.firstServes THEN <<"doubleFaults">> ELSE <<>>)
  \o (IF p.firstServePtsWon > p.firstServesIn THEN <<"firstSvPtsWon">> ELSE <<>>)
  \o (IF p.secondServePtsWon > p.firstServes - p.firstServesIn
      THEN <<"secondSvPtsWon">> ELSE <<>>)
  \o (IF p.winners > p.totPtsWon THEN <<"winners">> ELSE <<>>)
  \o (IF p.breakPtsWon > p.breakPts \/ p.breakPtsWon >= p.totPtsWon
      THEN <<"breakPtsWon">> ELSE <<>>)
  \o (IF p.recvPtsWon > p.recvPts \/ p.recvPtsWon >= p.totPtsWon
      THEN <<"recvPtsWon">> ELSE <<>>)
  \o (IF p.netApproachesWon > p.netApproaches \/ p.netApproachesWon >= p.totPtsWon
      THEN <<"netApproachWon">> ELSE <<>>)
  \o (IF p.avgFirstServeKph >= p.fastestServeKph
      THEN <<"avgFirstSvKph", "fastestServeKph">> ELSE <<>>)
  \o (IF p.avgSecondServeKph >= p.fastestServeKph
         \/ p.avgSecondServeKph > p.avgFirstServeKph
      THEN <<"avgSecondSvKph", "fastestServeKph">> ELSE <<>>)

\* PlayerStats.__str__: 18 comma-separated fields
PlayerStats_str(p) ==
  << IntToStr(p.firstServesIn), IntToStr(p.firstServes), IntToStr(p.aces),
     IntToStr(p.doubleFaults), IntToStr(p.unforcedErrs),
     IntToStr(p.firstServePtsWon), IntToStr(p.secondServePtsWon),
     IntToStr(p.winners), IntToStr(p.breakPtsWon), IntToStr(p.breakPts),
     IntToStr(p.recvPtsWon), IntToStr(p.recvPts), IntToStr(p.netApproachesWon),
     IntToStr(p.netApproaches), IntToStr(p.totPtsWon),
     IntToStr(p.fastestServeKph), IntToStr(p.avgFirstServeKph),
     IntToStr(p.avgSecondServeKph) >>

\* the date prefix MatchStats.__init__ removes from the duration column
TimePrefix == <<"1", "2", "/", "3", "0", "/", "9", "9", " ">>

\* the duration above which MatchStats.validate flags "Duration"
MaxDuration == 300

\* MatchStats.__init__(winnerStats, loserStats, matchTime)
NewMatchStats(winnerStats, loserStats, matchTime) ==
  LET t         == RemoveSub(matchTime, TimePrefix)
      timeParts == Split(t, ":")
  IN  IF t = <<>> THEN
        [ok  |-> TRUE,
         val |-> [winnerStats |-> winnerStats, loserStats |-> loserStats,
                  matchTime |-> None, suspectStats |-> <<>>, validated |-> FALSE]]
      ELSE IF Len(timeParts) < 2 \/ ~IsInt(timeParts[1]) \/ ~IsInt(timeParts[2])
      THEN Raised
      ELSE
        [ok  |-> TRUE,
         val |-> [winnerStats |-> winnerStats, loserStats |-> loserStats,
                  matchTime |-> Some(StrToInt(timeParts[1]) * 60 + StrToInt(timeParts[2])),
                  suspectStats |-> <<>>, validated |-> FALSE]]

\* "W%s" % x / "L%s" % x for each column name x of a list
Prefixed(side, names) == [i \in 1..Len(names) |-> <<side, names[i]>>]

\* "if self._matchTime:" is false for None and for 0
DurationSuspect(matchTime) ==
  IF matchTime.some /\ matchTime.val # 0 THEN matchTime.val > MaxDuration ELSE TRUE

\* MatchStats.validate() without the test of _validated
MatchStats_validate_Unguarded(ms) ==
  LET suspectStats ==
        ms.suspectStats
        \o Prefixed("W", PlayerStats_validate(ms.winnerStats))
        \o Prefixed("L", PlayerStats_validate(ms.loserStats))
        \o (IF DurationSuspect(ms.matchTime) THEN << <<"Duration">> >> ELSE <<>>)
  IN  [ok  |-> TRUE,
       val |-> [ms EXCEPT
                  !.suspectStats =
                     IF Len(suspectStats) # 0
                     THEN << IntToStr(Len(suspectStats)) \o <<":">> >>
                          \o suspectStats
                     ELSE << <<"0">> >>,
                  !.validated = TRUE]]

\* MatchStats.validate(): raises on a second call, else records the suspects
MatchStats_validate(ms) ==
  IF ms.validated THEN Raised
  ELSE LET suspectStats ==
             ms.suspectStats
             \o Prefixed("W", PlayerStats_validate(ms.winnerStats))
             \o Prefixed("L", PlayerStats_validate(ms.loserStats))
             \o (IF DurationSuspect(ms.matchTime) THEN << <<"Duration">> >> ELSE <<>>)
       IN  [ok  |-> TRUE,
            val |-> [ms EXCEPT
                       !.suspectStats =
                          IF Len(suspectStats) # 0
                          THEN << IntToStr(Len(suspectStats)) \o <<":">> >>
                               \o suspectStats
                          ELSE << <<"0">> >>,
                       !.validated = TRUE]]

\* MatchStats.__str__: 18 + 18 + 2 comma-separated fields
MatchStats_str(ms) ==
  PlayerStats_str(ms.winnerStats) \o PlayerStats_str(ms.loserStats)
  \o << IF ms.matchTime.some THEN IntToStr(ms.matchTime.val)
        ELSE <<"N", "o", "n", "e">>,
        Join(ms.suspectStats, <<" ">>) >>

\* getFullHeader without the SuspectColumns column
getFullHeader_NoSuspectColumns ==
  [ok  |-> TRUE,
   val |-> Prefixed("W", StatsHeader) \o Prefixed("L", StatsHeader)
           \o << <<"Duration">> >>]

\* MatchStats.getFullHeader(): the list of its comma-separated column names;
\* raises when HEADER does not name PLAYER_STATS_COUNT columns
getFullHeader ==
  IF Len(StatsHeader) # PLAYER_STATS_COUNT THEN Raised
  ELSE [ok  |-> TRUE,
        val |-> Prefixed("W", StatsHeader) \o Prefixed("L", StatsHeader)
                \o << <<"Duration">>, <<"SuspectColumns">> >>]

\* _createDummyStats with one "n/a" per player statistic only
createDummyStats_StatsOnly ==
  [i \in 1..(2 * PLAYER_STATS_COUNT) |-> <<"n", "/", "a">>]

\* AugmentedGamesfileGenerator._createDummyStats(): one "n/a" per column
createDummyStats == [i \in 1..Len(getFullHeader.val) |-> <<"n", "/", "a">>]

\* ------------------------------------------------------------------------
\* MatchKey
\* ------------------------------------------------------------------------

\* MatchKey(winnerID, loserID, tourID, roundID): keys are equal, and hash
\* alike, exactly when their names are, so a key is modelled by its name;
\* raises ValueError when a component is empty
MatchKey(winnerID, loserID, tourID, roundID) ==
  IF winnerID = <<>> \/ loserID = <<>> \/ tourID = <<>> \/ roundID = <<>>
  THEN Raised
  ELSE [ok  |-> TRUE,
        val |-> Join(<<winnerID, loserID, tourID, roundID>>, <<"/">>)]

\* ------------------------------------------------------------------------
\* Input files of the runs explored
\* ------------------------------------------------------------------------

\* rows read from games_<gender>.csv in one run, at most
MaxRows == 3
\* rows read from stat_<gender>.csv in one run, at most
MaxStats == 1
\* bufSz of dump(), scaled down from the program's 5000
BufSz == 2

Midnight == <<" ", "0", "0", ":", "0", "0", ":", "0", "0">>
DobA == <<"0", "5", "/", "0", "1", "/", "8", "0">> \o Midnight
DobB == <<"1", "1", "/", "2", "0", "/", "8", "5">> \o Midnight
TourDate == <<"0", "6", "/", "2", "3", "/", "1", "4">> \o Midnight
MatchDate == <<"0", "6", "/", "2", "5", "/", "1", "4">> \o Midnight
\* no "/" at all: convertOnCourtDateToYmd raises IndexError
BadDate == <<"2", "0", "1", "4", "-", "0", "6", "-", "2", "5">>
Blank == <<>>

\* players_<gender>.csv, rows <<ID_P, NAME_P, DATE_P>>: 3 has no date of
\* birth, 4 and 5 are doubles pairings
PlayersFile ==
  << << <<"1">>, <<"A">>, DobA >>,
     << <<"2">>, <<"B">>, DobB >>,
     << <<"3">>, <<"C">>, Blank >>,
     << <<"4">>, <<"A", "/", "B">>, DobA >>,
     << <<"5">>, <<"C", "/", "D">>, DobB >> >>

\* rounds.csv, rows <<ID_R, NAME_R>>
RoundsFile == << << <<"1">>, <<"F">> >>, << <<"2">>, <<"Q">> >> >>

\* courts.csv, rows <<ID_C, NAME_C>>
CourtsFile == << << <<"1">>, <<"H">> >>, << <<"2">>, <<"C">> >> >>

\* tours_<gender>.csv, rows <<ID_T, NAME_T, ID_C_T, DATE_T, COUNTRY_T>>
TourW == << <<"1">>, <<"W">>, <<"1">>, TourDate, <<"U">> >>
\* a tournament with no start date
TourN == << <<"2">>, <<"N">>, <<"2">>, Blank, <<"F">> >>
\* a tournament with no country
TourQ == << <<"3">>, <<"Q">>, <<"2">>, TourDate, Blank >>
\* a tournament whose court id is not in courts.csv
TourL == << <<"4">>, <<"L">>, <<"9">>, TourDate, <<"U">> >>

\* the tournaments files of the runs explored; in the second the first row's
\* court id is the unknown one
ToursFiles ==
  { << TourW, TourL, TourN, TourQ >>,
    << TourL, TourW, TourN, TourQ >> }

S_6_4   == <<"6", "-", "4">>
S_6_3   == <<"6", "-", "3">>
S_3_6   == <<"3", "-", "6">>
S_7_6t  == <<"7", "-", "6", "(", "4", ")">>
Sp      == <<" ">>

\* a row of games_<gender>.csv: elements[0..5]
GamesRow(w, l, t, r, score, date) == <<w, l, t, r, score, date>>

\* the rows a games file of the runs explored is made of
GamesRows ==
  { GamesRow(<<"1">>, <<"2">>, <<"1">>, <<"1">>, S_6_4 \o Sp \o S_6_3, MatchDate),
    GamesRow(<<"2">>, <<"1">>, <<"1">>, <<"2">>,
             S_6_4 \o Sp \o S_3_6 \o Sp \o S_7_6t, MatchDate),
    \* the key of the first row again, with another score
    GamesRow(<<"1">>, <<"2">>, <<"1">>, <<"1">>, S_6_3 \o Sp \o S_6_3, MatchDate),
    \* no date: the tournament's is used
    GamesRow(<<"2">>, <<"1">>, <<"1">>, <<"1">>, S_6_3 \o Sp \o S_6_4, Blank),
    \* no date, and the tournament has none
    GamesRow(<<"1">>, <<"2">>, <<"2">>, <<"1">>, S_6_4 \o Sp \o S_6_3, Blank),
    \* a date that does not parse
    GamesRow(<<"1">>, <<"2">>, <<"1">>, <<"2">>, S_6_4 \o Sp \o S_6_3, BadDate),
    \* doubles pairings, unknown player
    GamesRow(<<"4">>, <<"5">>, <<"1">>, <<"1">>, S_6_4 \o Sp \o S_6_3, MatchDate),
    GamesRow(<<"1">>, <<"9">>, <<"1">>, <<"1">>, S_6_4 \o Sp \o S_6_3, MatchDate),
    \* unknown tournament, unknown round
    GamesRow(<<"1">>, <<"2">>, <<"9">>, <<"1">>, S_6_4 \o Sp \o S_6_3, MatchDate),
    GamesRow(<<"1">>, <<"2">>, <<"1">>, <<"9">>, S_6_4 \o Sp \o S_6_3, MatchDate),
    \* a tournament without country
    GamesRow(<<"1">>, <<"2">>, <<"3">>, <<"1">>, S_6_4 \o Sp \o S_6_3, MatchDate),
    \* a score that does not parse
    GamesRow(<<"2">>, <<"1">>, <<"3">>, <<"2">>, S_6_4, MatchDate) }

\* the columns (0-based, as in load()) of a stat_<gender>.csv row that feed
\* the 18 PlayerStats arguments of the winner and of the loser, and the
\* duration column
WinnerCols == <<4, 5, 6, 7, 8, 9, 11, 13, 14, 15, 40, 41, 16, 17, 18, 19, 20, 21>>
LoserCols == <<22, 23, 24, 25, 26, 27, 29, 31, 32, 33, 42, 43, 34, 35, 36, 37, 38, 39>>
DurationCol == 44

\* a row of stat_<gender>.csv holding the given PlayerStats arguments
StatsRow(w, l, t, r, ws, ls, time) ==
  [j \in 1..(DurationCol + 1) |->
     IF j = 1 THEN w ELSE IF j = 2 THEN l ELSE IF j = 3 THEN t ELSE IF j = 4 THEN r
     ELSE IF j = DurationCol + 1 THEN time
     ELSE IF \E i \in 1..PLAYER_STATS_COUNT : WinnerCols[i] + 1 = j
          THEN ws[CHOOSE i \in 1..PLAYER_STATS_COUNT : WinnerCols[i] + 1 = j]
     ELSE IF \E i \in 1..PLAYER_STATS_COUNT : LoserCols[i] + 1 = j
          THEN ls[CHOOSE i \in 1..PLAYER_STATS_COUNT : LoserCols[i] + 1 = j]
     ELSE Blank]

Texts(ints) == [i \in 1..Len(ints) |-> IntToStr(ints[i])]

\* statistics no rule of validate() objects to
PlausibleStats ==
  Texts(<<40, 60, 5, 3, 20, 30, 10, 25, 3, 8, 30, 70, 10, 15, 90, 210, 190, 150>>)
\* more first serves in than first serves
SuspectStats ==
  Texts(<<10, 8, 5, 3, 20, 30, 10, 25, 3, 8, 30, 70, 10, 15, 90, 210, 190, 150>>)
\* nothing recorded
BlankStats == [i \in 1..PLAYER_STATS_COUNT |-> Blank]
\* a statistic that is no number
BrokenStats == [i \in 1..PLAYER_STATS_COUNT |-> IF i = 3 THEN <<"-">> ELSE <<"1">>]

Time_1_30 == TimePrefix \o <<"0", "1", ":", "3", "0", ":", "0", "0">>

\* the rows a statistics file of the runs explored is made of
StatsRows ==
  { StatsRow(<<"1">>, <<"2">>, <<"1">>, <<"1">>, PlausibleStats, PlausibleStats, Time_1_30),
    StatsRow(<<"2">>, <<"1">>, <<"1">>, <<"2">>, SuspectStats, BlankStats, Blank),
    StatsRow(<<"2">>, <<"1">>, <<"1">>, <<"1">>, PlausibleStats, BrokenStats, Time_1_30) }

\* ------------------------------------------------------------------------
\* The run: doMain() for one gender
\* ------------------------------------------------------------------------

VARIABLES
  pc,          \* where the run is
  error,       \* the exception that ended the run, "" while there is none
  toursFile,   \* the data rows of tours_<gender>.csv
  id2playerinfo, \* PlayerMapper._id2playerinfo
  toursMap,    \* TourMapper._toursMap
  roundMap,    \* RoundMapper._map
  gamesRead,   \* the rows of games_<gender>.csv read so far
  nStatsRead,  \* how many rows of stat_<gender>.csv were read so far
  matchKeys,   \* AugmentedGamesfileGenerator._matchKeys
  matches,     \* AugmentedGamesfileGenerator._matches
  stats,       \* AugmentedGamesfileGenerator._stats
  dumpPos,     \* dump(): how many keys of _matchKeys the for-loop has done
  buf,         \* dump(): buf
  matchesWritten, \* dump(): matchesWritten
  outfile,     \* the lines written to the output file, each a list of fields
  scoreIn,     \* the score text a Match is constructed from
  scoreOut,    \* the Match constructed from it, or the exception raised
  dateIn,      \* the source dates given: a date of birth and two game dates
  dateOut      \* the PlayerInfo, the converted game dates and the ages

vars == << pc, error, toursFile, id2playerinfo, toursMap, roundMap, gamesRead,
           nStatsRead, matchKeys, matches, stats, dumpPos, buf, matchesWritten,
           outfile, scoreIn, scoreOut, dateIn, dateOut >>

providerVars == << toursFile, id2playerinfo, toursMap, roundMap >>
loadVars == << gamesRead, nStatsRead, matchKeys, matches, stats >>
dumpVars == << dumpPos, buf, matchesWritten, outfile >>
scoreVars == << scoreIn, scoreOut >>
dateVars == << dateIn, dateOut >>

Init ==
  /\ pc = "start"
  /\ error = ""
  /\ toursFile \in ToursFiles
  /\ id2playerinfo = EmptyDict
  /\ toursMap = EmptyDict
  /\ roundMap = EmptyDict
  /\ gamesRead = <<>>
  /\ nStatsRead = 0
  /\ matchKeys = <<>>
  /\ matches = EmptyDict
  /\ stats = EmptyDict
  /\ dumpPos = 0
  /\ buf = <<>>
  /\ matchesWritten = 0
  /\ outfile = <<>>
  /\ scoreIn = <<>>
  /\ scoreOut = Raised
  /\ dateIn = <<>>
  /\ dateOut = Raised

\* the run ends with an uncaught exception
Abort(what) == pc' = "aborted" /\ error' = what

\* doMain(): the mappers are loaded before load() is called
LoadProviders ==
  /\ pc = "start"
  /\ LET players == PlayerMapper_load(PlayersFile)
         courts  == IDToNameMapper_load(CourtsFile, 1, 2, EmptyDict)
         tours   == TourMapper_load(toursFile, courts, None, EmptyDict, EmptyDict)
     IN  IF ~players.ok THEN
           /\ Abort("PlayerMapper.load")
           /\ UNCHANGED << id2playerinfo, toursMap, roundMap >>
         ELSE IF ~tours.ok THEN
           /\ Abort("TourMapper.load")
           /\ UNCHANGED << id2playerinfo, toursMap, roundMap >>
         ELSE
           /\ pc' = "summaries"
           /\ error' = error
           /\ id2playerinfo' = players.val
           /\ toursMap' = tours.toursMap
           /\ roundMap' = IDToNameMapper_load(RoundsFile, 1, 2, EmptyDict)
  /\ UNCHANGED << scoreVars, dateVars, toursFile, loadVars, dumpVars >>

\* load(), the body of the loop over the summary rows, for one row:
\* what becomes of the row, with the key and the Match when it is stored
SummaryStep(elements, pmap, tmap, rmap) ==
  LET winnerID == elements[1]
      loserID  == elements[2]
      tourID   == elements[3]
      roundID  == elements[4]
      matchKey == MatchKey(winnerID, loserID, tourID, roundID)
      tourInfo == tmap[tourID]
      winnerInfo == getPlayerInfo(pmap, winnerID)
      loserInfo  == getPlayerInfo(pmap, loserID)
      matchDateStr == IF elements[6] = <<>> THEN tourInfo.date ELSE elements[6]
      match == NewMatch(winnerInfo.val, loserInfo.val, tourInfo.name,
                        tourInfo.surface, tourInfo.country, rmap[roundID],
                        elements[5], matchDateStr)
      none == [kind |-> "skip", error |-> "", key |-> <<>>, match |-> <<>>]
  IN  IF ~matchKey.ok THEN
        [none EXCEPT !.kind = "abort", !.error = "ValueError: Bad MatchKey"]
      ELSE IF tourID \notin DOMAIN tmap THEN
        [none EXCEPT !.kind = "abort", !.error = "KeyError: getTourInfo"]
      ELSE IF ~winnerInfo.some \/ ~loserInfo.some THEN none
      ELSE IF Contains(winnerInfo.val.name, "/") /\ Contains(loserInfo.val.name, "/")
      THEN none
      ELSE IF matchDateStr = <<>> THEN
        [none EXCEPT !.kind = "abort", !.error = "ValueError: No match or tour date"]
      ELSE IF roundID \notin DOMAIN rmap THEN none
      ELSE IF ~match.ok THEN none
      ELSE [kind |-> "store", error |-> "", key |-> matchKey.val, match |-> match.val]

\* load(): one more row of the games file is read and processed
ReadSummary(elements) ==
  /\ pc = "summaries"
  /\ Len(gamesRead) < MaxRows
  /\ gamesRead' = Append(gamesRead, elements)
  /\ LET step == SummaryStep(elements, id2playerinfo, toursMap, roundMap)
     IN  CASE step.kind = "abort" ->
                /\ Abort(step.error)
                /\ UNCHANGED << matchKeys, matches >>
           [] step.kind = "skip" ->
                /\ UNCHANGED << pc, error, matchKeys, matches >>
           [] step.kind = "store" ->
                /\ matches' = DictSet(matches, step.key, step.match)
                /\ matchKeys' = Append(matchKeys, step.key)
                /\ UNCHANGED << pc, error >>
  /\ UNCHANGED << scoreVars, dateVars, providerVars, nStatsRead, stats, dumpVars >>

\* load(): the games file is exhausted; with DEBUG set the percentage of
\* matches loaded is printed, a division by the number of rows read
EndSummaries ==
  /\ pc = "summaries"
  /\ IF Len(gamesRead) = 0 THEN Abort("ZeroDivisionError")
     ELSE pc' = "stats" /\ error' = error
  /\ UNCHANGED << scoreVars, dateVars, providerVars, loadVars, dumpVars >>

\* load(), the body of the loop over the statistics rows, for one row
StatsStep(elements) ==
  LET matchKey == MatchKey(elements[1], elements[2], elements[3], elements[4])
      winnerStats == PlayerStats([i \in 1..PLAYER_STATS_COUNT |-> elements[WinnerCols[i] + 1]])
      loserStats  == PlayerStats([i \in 1..PLAYER_STATS_COUNT |-> elements[LoserCols[i] + 1]])
      matchStats  == NewMatchStats(winnerStats.val, loserStats.val,
                                   elements[DurationCol + 1])
      validated   == MatchStats_validate(matchStats.val)
      none == [kind |-> "abort", error |-> "", key |-> <<>>, stats |-> <<>>]
  IN  IF Len(elements) < DurationCol + 1 THEN [none EXCEPT !.error = "IndexError"]
      ELSE IF ~matchKey.ok THEN [none EXCEPT !.error = "ValueError: Bad MatchKey"]
      ELSE IF ~winnerStats.ok \/ ~loserStats.ok THEN
        [none EXCEPT !.error = "ValueError: PlayerStats"]
      ELSE IF ~matchStats.ok THEN [none EXCEPT !.error = "ValueError: MatchStats"]
      ELSE IF ~validated.ok THEN [none EXCEPT !.error = "Exception: validate"]
      ELSE [kind |-> "store", error |-> "", key |-> matchKey.val,
            stats |-> validated.val]

\* load(): one more row of the statistics file is read and processed
ReadStats(elements) ==
  /\ pc = "stats"
  /\ nStatsRead < MaxStats
  /\ nStatsRead' = nStatsRead + 1
  /\ LET step == StatsStep(elements)
     IN  IF step.kind = "abort" THEN
           /\ Abort(step.error)
           /\ stats' = stats
         ELSE
           /\ stats' = DictSet(stats, step.key, step.stats)
           /\ UNCHANGED << pc, error >>
  /\ UNCHANGED << scoreVars, dateVars, providerVars, gamesRead, matchKeys, matches, dumpVars >>

\* load() returns
EndStats ==
  /\ pc = "stats"
  /\ pc' = "loaded"
  /\ UNCHANGED << scoreVars, dateVars, error, providerVars, loadVars, dumpVars >>

\* dump(): outfileHeader, as the list of its column names
outfileHeader == MatchHeader \o getFullHeader.val \o << <<"MatchKey">> >>

\* dump(): nHeaderColumns
nHeaderColumns == Len(outfileHeader)

\* dump(): the header line is written
DumpStart ==
  /\ pc = "loaded"
  /\ IF ~getFullHeader.ok THEN
       /\ Abort("ValueError: getFullHeader")
       /\ outfile' = outfile
     ELSE
       /\ pc' = "dumping"
       /\ error' = error
       /\ outfile' = Append(outfile, outfileHeader)
  /\ dumpPos' = 0
  /\ buf' = <<>>
  /\ matchesWritten' = 0
  /\ UNCHANGED << scoreVars, dateVars, providerVars, loadVars >>

\* dump(): "%s,%s,%s" % (match, stats, matchKey) as the list of its fields;
\* raises when the Match cannot be formatted
fullMatchRow(matchKey) ==
  LET match    == Match_str(matches[matchKey])
      statsStr == IF matchKey \in DOMAIN stats THEN MatchStats_str(stats[matchKey])
                  ELSE createDummyStats
  IN  IF ~match.ok THEN Raised
      ELSE [ok |-> TRUE, val |-> match.val \o statsStr \o <<matchKey>>]

\* dump(): the row's field count disagrees with the header's
RowMismatch(row) == Len(row) # nHeaderColumns

\* JoinedLines writing the buffer last row first
JoinedLines_Reversed(b) ==
  IF b = <<>> THEN << << <<>> >> >> ELSE [i \in 1..Len(b) |-> b[Len(b) + 1 - i]]

\* "\n".join(buf) followed by "\n", as lines: the rows of buf, or one empty
\* line (a single empty field) when buf is empty
JoinedLines(b) == IF b = <<>> THEN << << <<>> >> >> ELSE b

\* dump(): the body of the loop over _matchKeys, for the next key
DumpRow ==
  /\ pc = "dumping"
  /\ dumpPos < Len(matchKeys)
  /\ dumpPos' = dumpPos + 1
  /\ LET row == fullMatchRow(matchKeys[dumpPos + 1])
     IN  IF ~row.ok THEN
           /\ Abort("Exception: Match.__str__")
           /\ UNCHANGED << buf, matchesWritten, outfile >>
         ELSE IF RowMismatch(row.val) THEN
           /\ Abort("Exception: Header has n columns but a row has m")
           /\ UNCHANGED << buf, matchesWritten, outfile >>
         ELSE IF Len(buf) + 1 = BufSz THEN
           /\ outfile' = outfile \o JoinedLines(Append(buf, row.val))
           /\ matchesWritten' = matchesWritten + Len(buf) + 1
           /\ buf' = <<>>
           /\ UNCHANGED << pc, error >>
         ELSE
           /\ buf' = Append(buf, row.val)
           /\ UNCHANGED << pc, error, matchesWritten, outfile >>
  /\ UNCHANGED << scoreVars, dateVars, providerVars, loadVars >>

\* dump(): after the loop, what is left in buf is written and the file closed
DumpFinish ==
  /\ pc = "dumping"
  /\ dumpPos = Len(matchKeys)
  /\ outfile' = outfile \o JoinedLines(buf)
  /\ matchesWritten' = matchesWritten + Len(buf)
  /\ pc' = "done"
  /\ UNCHANGED << scoreVars, dateVars, error, providerVars, loadVars, dumpPos, buf >>

Next ==
  \/ LoadProviders
  \/ \E elements \in GamesRows : ReadSummary(elements)
  \/ EndSummaries
  \/ \E elements \in StatsRows : ReadStats(elements)
  \/ EndStats
  \/ DumpStart
  \/ DumpRow
  \/ DumpFinish

Spec == Init /\ [][Next]_vars

\* ------------------------------------------------------------------------
\* Match construction on its own, over a family of score texts
\* ------------------------------------------------------------------------

\* set tokens joined into one generated score text, at most
MaxSets == 2

\* game counts as a score writes them, for the winner and for the loser
WinnerGameTexts ==
  { <<"0">>, <<"4">>, <<"6">>, <<"7">>, <<"1", "0">>, <<"6", "(", "4", ")">> }
LoserGameTexts ==
  { <<"3">>, <<"5">>, <<"6">>, <<"7">>, <<"8">>,
    <<"6", "(", "4", ")">>, <<"7", "(", "5", ")">> }

\* set tokens: every pair of the above, and three that are no pair
SetTexts ==
  { w \o <<"-">> \o l : w \in WinnerGameTexts, l \in LoserGameTexts }
  \cup { <<>>, <<"6">>, <<"6", "-", "4", "-", "1">> }

\* the score texts explored: up to MaxSets tokens separated by one blank,
\* and some longer matches
ScoreTexts ==
  { Join(q, Sp) : q \in UNION { [1..n -> SetTexts] : n \in 0..MaxSets } }
  \cup { S_6_4,
         S_6_4 \o Sp \o S_3_6 \o Sp \o S_7_6t,
         Sp \o S_6_4 \o Sp \o S_6_3 \o Sp,
         S_6_4 \o Sp \o Sp \o S_6_3,
         S_3_6 \o Sp \o S_7_6t \o Sp \o S_6_4 \o Sp \o <<"6", "-", "7", "(", "5", ")">>
           \o Sp \o <<"1", "0", "-", "8">> }

InitScore ==
  /\ pc = "start"
  /\ error = ""
  /\ toursFile = << TourW, TourL, TourN, TourQ >>
  /\ id2playerinfo = EmptyDict
  /\ toursMap = EmptyDict
  /\ roundMap = EmptyDict
  /\ gamesRead = <<>>
  /\ nStatsRead = 0
  /\ matchKeys = <<>>
  /\ matches = EmptyDict
  /\ stats = EmptyDict
  /\ dumpPos = 0
  /\ buf = <<>>
  /\ matchesWritten = 0
  /\ outfile = <<>>
  /\ scoreIn \in ScoreTexts
  /\ scoreOut = Raised
  /\ dateIn = <<>>
  /\ dateOut = Raised

\* AugmentedGamesfileGenerator.Match(...) is called with a score text, the
\* other arguments being those of a resolvable summary row
ConstructMatch ==
  /\ pc = "start"
  /\ pc' = "constructed"
  /\ LET players == PlayerMapper_load(PlayersFile).val
     IN  scoreOut' = NewMatch(players[<<"1">>], players[<<"2">>], <<"W">>, <<"H">>,
                              <<"U">>, <<"F">>, scoreIn, MatchDate)
  /\ UNCHANGED << scoreIn, dateVars, error, providerVars, loadVars, dumpVars >>

NextScore == ConstructMatch

SpecScore == InitScore /\ [][NextScore]_vars

\* ------------------------------------------------------------------------
\* What a score text says, read independently of the parser
\* ------------------------------------------------------------------------

\* the digits a game count starts with
RECURSIVE LeadingDigits(_)
LeadingDigits(g) ==
  IF g # <<>> /\ Head(g) \in DigitChars
  THEN <<Head(g)>> \o LeadingDigits(Tail(g)) ELSE <<>>

\* what follows them
Annotation(g) == SubSeq(g, Len(LeadingDigits(g)) + 1, Len(g))

\* "(n)"
IsTieBreakAnnotation(a) ==
  Len(a) >= 3 /\ a[1] = "(" /\ a[Len(a)] = ")" /\ AllDigits(SubSeq(a, 2, Len(a) - 1))

\* a number, with or without a tie-break annotation
IsGameCount(g) ==
  /\ LeadingDigits(g) # <<>>
  /\ Annotation(g) = <<>> \/ IsTieBreakAnnotation(Annotation(g))

\* the number of games a game count stands for
GamesOf(g) == DigitsVal(LeadingDigits(g))

\* the set tokens of a score text
SetTokensOf(score) == Split(Strip(score), " ")

\* a token "w-l" of two game counts
IsSetToken(tok) ==
  LET g == Split(tok, "-")
  IN  Len(g) = 2 /\ IsGameCount(g[1]) /\ IsGameCount(g[2])

WinnerGamesOf(tok) == GamesOf(Split(tok, "-")[1])
LoserGamesOf(tok) == GamesOf(Split(tok, "-")[2])

\* a set token in which neither side reaches 6 games
NeitherReachesSix(tok) ==
  IsSetToken(tok) /\ WinnerGamesOf(tok) < 6 /\ LoserGamesOf(tok) < 6

\* a set token whose tie-break annotations, if any, are on the count of the
\* side that lost the set, and in which a side reaches 6 games
IsPlayedSet(tok) ==
  LET g == Split(tok, "-")
  IN  /\ IsSetToken(tok)
      /\ WinnerGamesOf(tok) >= 6 \/ LoserGamesOf(tok) >= 6
      /\ Annotation(g[1]) # <<>> => WinnerGamesOf(tok) < LoserGamesOf(tok)
      /\ Annotation(g[2]) # <<>> => LoserGamesOf(tok) < WinnerGamesOf(tok)

HasAnnotation(tok) == Contains(tok, "(")

\* a score of at least two played sets
IsPlayedScore(score) ==
  LET t == SetTokensOf(score)
  IN  Len(t) >= 2 /\ \A i \in 1..Len(t) : IsPlayedSet(t[i])

SetsWonByWinner(score) ==
  LET t == SetTokensOf(score)
  IN  Cardinality({i \in 1..Len(t) : WinnerGamesOf(t[i]) > LoserGamesOf(t[i])})

RECURSIVE SumOver(_, _)
SumOver(Op(_), q) == IF q = <<>> THEN 0 ELSE Op(Head(q)) + SumOver(Op, Tail(q))

\* ------------------------------------------------------------------------
\* Claims about the score parser (specification SpecScore)
\* ------------------------------------------------------------------------

\* C7: constructing a Match raises for every score text that has a set token
\* in which neither side's game count reaches 6
C7_LowSetRejected ==
  (pc = "constructed"
   /\ \E i \in 1..Len(SetTokensOf(scoreIn)) : NeitherReachesSix(SetTokensOf(scoreIn)[i]))
  => ~scoreOut.ok

\* C8: for every accepted score text (here: of sets in which a side reaches 6
\* games) the winner-sets count is the number of sets in which the winner's
\* game count is numerically the greater, and the loser-sets count is the
\* number of the other sets
C8_SetsCountedNumerically ==
  (pc = "constructed" /\ scoreOut.ok
   /\ \A i \in 1..Len(SetTokensOf(scoreIn)) :
        ~NeitherReachesSix(SetTokensOf(scoreIn)[i]))
  => /\ scoreOut.val.result.winnerSetsWon = SetsWonByWinner(scoreIn)
     /\ scoreOut.val.result.loserSetsWon
          = Len(SetTokensOf(scoreIn)) - SetsWonByWinner(scoreIn)

\* C9 as claimed: a score of played sets, some carrying a tie-break annotation
\* on the count of the side that lost the set (in either position), is
\* accepted; the games of every set are added to both totals without the
\* annotation, and the tie-breaks counted are the 7-6 sets for the winner and
\* the 6-7 sets for the loser
C9_Original ==
  LET t == SetTokensOf(scoreIn)
  IN  (pc = "constructed" /\ IsPlayedScore(scoreIn)
       /\ \E i \in 1..Len(t) : HasAnnotation(t[i]))
      => /\ scoreOut.ok
         /\ getWinnerGamesWon(scoreOut.val.result) = SumOver(WinnerGamesOf, t)
         /\ getLoserGamesWon(scoreOut.val.result) = SumOver(LoserGamesOf, t)
         /\ getWinnerTieBreaksWon(scoreOut.val.result)
              = Cardinality({i \in 1..Len(t) :
                               WinnerGamesOf(t[i]) = 7 /\ LoserGamesOf(t[i]) = 6})
         /\ getLoserTieBreaksWon(scoreOut.val.result)
              = Cardinality({i \in 1..Len(t) :
                               WinnerGamesOf(t[i]) = 6 /\ LoserGamesOf(t[i]) = 7})

\* the annotations of the score are all on the second game count of a token
AnnotatedSecondOnly(score) ==
  \A i \in 1..Len(SetTokensOf(score)) :
    Annotation(Split(SetTokensOf(score)[i], "-")[1]) = <<>>

\* C9, amended: a score of played sets, some carrying a tie-break annotation
\* on the count of the side that lost the set where that count is the second
\* of the token (the match loser's, as in 7-6(4)), is accepted; the games of
\* every set are added to both totals without the annotation, and the
\* tie-breaks counted are the 7-6 sets for the winner and the 6-7 sets for
\* the loser
C9_SecondCountAnnotationAccepted ==
  LET t == SetTokensOf(scoreIn)
  IN  (pc = "constructed" /\ IsPlayedScore(scoreIn)
       /\ AnnotatedSecondOnly(scoreIn)
       /\ \E i \in 1..Len(t) : HasAnnotation(t[i]))
      => /\ scoreOut.ok
         /\ getWinnerGamesWon(scoreOut.val.result) = SumOver(WinnerGamesOf, t)
         /\ getLoserGamesWon(scoreOut.val.result) = SumOver(LoserGamesOf, t)
         /\ getWinnerTieBreaksWon(scoreOut.val.result)
              = Cardinality({i \in 1..Len(t) :
                               WinnerGamesOf(t[i]) = 7 /\ LoserGamesOf(t[i]) = 6})
         /\ getLoserTieBreaksWon(scoreOut.val.result)
              = Cardinality({i \in 1..Len(t) :
                               WinnerGamesOf(t[i]) = 6 /\ LoserGamesOf(t[i]) = 7})

\* a Match constructed from a score with an annotated 7-6 set and a 6-7 set
C9_Witness ==
  /\ pc = "constructed"
  /\ IsPlayedScore(scoreIn)
  /\ AnnotatedSecondOnly(scoreIn)
  /\ scoreOut.ok
  /\ \E i \in 1..Len(SetTokensOf(scoreIn)) :
       /\ HasAnnotation(SetTokensOf(scoreIn)[i])
       /\ WinnerGamesOf(SetTokensOf(scoreIn)[i]) = 7
       /\ LoserGamesOf(SetTokensOf(scoreIn)[i]) = 6
  /\ getWinnerTieBreaksWon(scoreOut.val.result) = 1
  /\ getLoserTieBreaksWon(scoreOut.val.result) = 1

\* ------------------------------------------------------------------------
\* What the files read and the file written say
\* ------------------------------------------------------------------------

Last(q) == q[Len(q)]

\* the line that holds nothing
EmptyLine == << <<>> >>

\* the data rows written so far: the lines after the header, but for empty lines
DataRows ==
  IF outfile = <<>> THEN <<>>
  ELSE SelectSeq(Tail(outfile), LAMBDA ln : ln # EmptyLine)

\* the MatchKey column of the data rows written so far
EmittedKeys == [i \in 1..Len(DataRows) |-> Last(DataRows[i])]

\* the columns of a data row between the match columns and the MatchKey
StatsBlock(row) == SubSeq(row, Len(MatchHeader) + 1, Len(row) - 1)

\* the statistics block of a match without statistics
PlaceholderBlock == [i \in 1..(2 * PLAYER_STATS_COUNT + 2) |-> <<"n", "/", "a">>]

\* the text of a summary row's composite key
KeyText(row) == row[1] \o <<"/">> \o row[2] \o <<"/">> \o row[3] \o <<"/">> \o row[4]

\* the keys of the rows load() stored, in the order the rows were read
RECURSIVE AcceptedKeys(_)
AcceptedKeys(rows) ==
  IF rows = <<>> THEN <<>>
  ELSE (IF SummaryStep(Head(rows), id2playerinfo, toursMap, roundMap).kind = "store"
        THEN <<KeyText(Head(rows))>> ELSE <<>>)
       \o AcceptedKeys(Tail(rows))

\* a foreign key of the row is not in its dictionary
UnresolvedKey(row) ==
  \/ row[1] \notin DOMAIN id2playerinfo
  \/ row[2] \notin DOMAIN id2playerinfo
  \/ row[3] \notin DOMAIN toursMap
  \/ row[4] \notin DOMAIN roundMap

\* the row has no date and its tournament has no start date
Undatable(row) ==
  /\ row[6] = <<>>
  /\ row[3] \in DOMAIN toursMap
  /\ toursMap[row[3]].date = <<>>

\* the date text a Match is built from: the row's, else the tournament's
DateTextOf(row) == IF row[6] = <<>> THEN toursMap[row[3]].date ELSE row[6]

\* the row's score and date can both be parsed
Parsable(row) ==
  /\ row[3] \in DOMAIN toursMap
  /\ convertOnCourtDateToYmd(DateTextOf(row)).ok
  /\ setResultInfo(Strip(row[5])).ok

\* "MM/DD/YY", with or without a time of day, naming a calendar day
IsSourceDate(d) ==
  LET p == Split(Head(Split(d, " ")), "/")
  IN  /\ Len(p) = 3
      /\ Len(p[1]) = 2 /\ Len(p[2]) = 2 /\ Len(p[3]) = 2
      /\ AllDigits(p[1]) /\ AllDigits(p[2]) /\ AllDigits(p[3])
      /\ DigitsVal(p[1]) \in 1..12
      /\ DigitsVal(p[2]) \in 1..DaysInMonth(
           IF DigitsVal(p[3]) >= 45 THEN 1900 + DigitsVal(p[3]) ELSE 2000 + DigitsVal(p[3]),
           DigitsVal(p[1]))

\* a score of at least two sets "w-l", a side reaching 6 games in each, with
\* tie-break annotations on second counts only
IsPlainScore(score) ==
  LET t == SetTokensOf(score)
  IN  /\ Len(t) >= 2
      /\ \A i \in 1..Len(t) :
           /\ IsSetToken(t[i])
           /\ WinnerGamesOf(t[i]) >= 6 \/ LoserGamesOf(t[i]) >= 6
           /\ Annotation(Split(t[i], "-")[1]) = <<>>

\* a well-formed summary row whose players, tournament and round are in the
\* dictionaries
WellFormedRow(row) ==
  /\ ~UnresolvedKey(row)
  /\ IsPlainScore(row[5])
  /\ IsSourceDate(DateTextOf(row))

\* the run ended by an exception in the loop over the summary rows
AbortedInSummaries ==
  pc = "aborted" /\ gamesRead # <<>> /\ nStatsRead = 0 /\ outfile = <<>>

\* the run ended by an exception in dump() after the header was written
AbortedInDump == pc = "aborted" /\ outfile # <<>>

\* ------------------------------------------------------------------------
\* Claims about load() and dump() (specification Spec)
\* ------------------------------------------------------------------------

\* C1: every data row dump() writes has exactly as many fields as the header
\* line, and dump() refuses no row of an accepted input for its field count
C1_RowsMatchHeader ==
  /\ \A i \in 2..Len(outfile) :
       outfile[i] # EmptyLine => Len(outfile[i]) = Len(outfile[1])
  /\ ~(pc = "aborted" /\ error = "Exception: Header has n columns but a row has m")

\* a dump that wrote a row with statistics and a row with the placeholder
C1_Witness ==
  /\ pc = "done"
  /\ \E i \in 1..Len(DataRows) : StatsBlock(DataRows[i]) = PlaceholderBlock
  /\ \E i \in 1..Len(DataRows) : StatsBlock(DataRows[i]) # PlaceholderBlock

\* C2: a summary row with a foreign key that is in no dictionary (winner,
\* loser, tournament or round) is skipped and load() goes on: the run is not
\* ended by that row
C2_UnresolvedRowSkipped ==
  (gamesRead # <<>> /\ UnresolvedKey(Last(gamesRead))) => ~AbortedInSummaries

\* C3: a summary row without date whose tournament has no start date is
\* dropped and load() goes on: the run is not ended by that row
C3_UndatableRowSkipped ==
  (gamesRead # <<>> /\ Undatable(Last(gamesRead))) => ~AbortedInSummaries

\* C4: a row whose score or date cannot be parsed is not stored, every stored
\* Match has a parsed date, and dump() is not ended by an exception
C4_MalformedRowNeverAborts ==
  /\ Len(matchKeys) <= Cardinality({i \in 1..Len(gamesRead) : Parsable(gamesRead[i])})
  /\ \A k \in DOMAIN matches : hasDate(matches[k])
  /\ ~AbortedInDump

\* C5: the MatchKey column of the rows written follows the order in which the
\* accepted summary rows were read, and is all of them once dump() is done
C5_OutputInFileOrder ==
  /\ EmittedKeys # <<>> => IsPrefix(EmittedKeys, AcceptedKeys(gamesRead))
  /\ pc = "done" => EmittedKeys = AcceptedKeys(gamesRead)

\* a dump of three matches, not all of one key: a full buffer and a rest
C5_Witness ==
  /\ pc = "done"
  /\ Len(EmittedKeys) > BufSz
  /\ \E i \in 1..Len(EmittedKeys) : EmittedKeys[i] # EmittedKeys[1]

\* C6: when all N summary rows read are well-formed, with distinct keys and
\* resolvable players, tournament and round, and no statistics row has the
\* key of any of them, dump() is not ended by an exception and writes exactly
\* N data rows, each with the all-placeholder statistics block
C6_PlaceholderForMissingStats ==
  ( /\ pc = "done" \/ AbortedInDump
    /\ \A i \in 1..Len(gamesRead) : KeyText(gamesRead[i]) \notin DOMAIN stats
    /\ \A i, j \in 1..Len(gamesRead) :
         KeyText(gamesRead[i]) = KeyText(gamesRead[j]) => i = j
    /\ \A i \in 1..Len(gamesRead) : WellFormedRow(gamesRead[i]) )
  => /\ ~AbortedInDump
     /\ pc = "done" =>
          /\ Len(DataRows) = Len(gamesRead)
          /\ \A i \in 1..Len(DataRows) : StatsBlock(DataRows[i]) = PlaceholderBlock

\* a dump of two such rows, after a statistics row with another key was read
C6_Witness ==
  /\ pc = "done"
  /\ Len(gamesRead) >= 2
  /\ \A i \in 1..Len(gamesRead) : WellFormedRow(gamesRead[i])
  /\ \A i, j \in 1..Len(gamesRead) :
       KeyText(gamesRead[i]) = KeyText(gamesRead[j]) => i = j
  /\ DOMAIN stats # {}
  /\ \A i \in 1..Len(gamesRead) : KeyText(gamesRead[i]) \notin DOMAIN stats
  /\ Len(DataRows) = Len(gamesRead)

\* C10: every Match load() stores is valid: names, dates of birth,
\* tournament, round, surface and country are all non-empty
C10_StoredMatchesValid == \A k \in DOMAIN matches : isValid(matches[k])

\* ------------------------------------------------------------------------
\* The mappers on their own, over a family of tournaments files
\* ------------------------------------------------------------------------

\* rows of a generated tournaments file, at most
MaxTours == 3

\* a second row for tournament 1, with another name, court and country
TourW2 == << <<"1">>, <<"X">>, <<"2">>, TourDate, <<"F">> >>

\* the rows a generated tournaments file is made of
TourRows == { TourW, TourW2, TourN, TourQ, TourL }

InitMapper ==
  /\ pc = "start"
  /\ error = ""
  /\ toursFile \in UNION { [1..n -> TourRows] : n \in 0..MaxTours }
  /\ id2playerinfo = EmptyDict
  /\ toursMap = EmptyDict
  /\ roundMap = EmptyDict
  /\ gamesRead = <<>>
  /\ nStatsRead = 0
  /\ matchKeys = <<>>
  /\ matches = EmptyDict
  /\ stats = EmptyDict
  /\ dumpPos = 0
  /\ buf = <<>>
  /\ matchesWritten = 0
  /\ outfile = <<>>
  /\ scoreIn = <<>>
  /\ scoreOut = Raised
  /\ dateIn = <<>>
  /\ dateOut = Raised

NextMapper == LoadProviders

SpecMapper == InitMapper /\ [][NextMapper]_vars

\* ------------------------------------------------------------------------
\* Claims about the mappers (specification SpecMapper)
\* ------------------------------------------------------------------------

\* the same key is in two data rows of the file
DuplicateKeys(rows) ==
  \E i, j \in 1..Len(rows) : i # j /\ rows[i][1] = rows[j][1]

\* the last data row of the file with the given key
LastRowOf(rows, id) ==
  rows[CHOOSE i \in 1..Len(rows) :
         rows[i][1] = id /\ \A j \in (i + 1)..Len(rows) : rows[j][1] # id]

\* courts.csv as a dictionary
CourtNames == [id \in {CourtsFile[i][1] : i \in 1..Len(CourtsFile)} |->
                 LastRowOf(CourtsFile, id)[2]]

\* C11: the load() of a mapper whose file has the same key in two data rows
\* fails: the mappers are never all loaded from such a file
C11_DuplicateKeyFails == DuplicateKeys(toursFile) => pc # "summaries"

\* C19: after TourMapper.load() every stored tournament has the surface the
\* courts file gives for the court id of the tournament's own row, which is
\* a court id of the courts file
C19_SurfaceOfOwnRow ==
  pc = "summaries" =>
    \A id \in DOMAIN toursMap :
      /\ LastRowOf(toursFile, id)[3] \in DOMAIN CourtNames
      /\ toursMap[id].surface = CourtNames[LastRowOf(toursFile, id)[3]]

\* ------------------------------------------------------------------------
\* The statistics loop of load() on its own, over a family of statistics
\* rows, and a second call of validate() on a stored MatchStats
\* ------------------------------------------------------------------------

\* the values a varied statistic takes are 0..MaxStatValue
MaxStatValue == 3

\* the values of PlausibleStats
PlausibleValues ==
  <<40, 60, 5, 3, 20, 30, 10, 25, 3, 8, 30, 70, 10, 15, 90, 210, 190, 150>>

\* the PlayerStats arguments (positions in the signature) that one rule, or
\* rules on the same arguments, of PlayerStats.validate compare
RuleArguments ==
  { {1, 2, 3}, {1, 2, 4}, {1, 2, 6}, {1, 2, 7}, {8, 15}, {9, 10, 15},
    {11, 12, 15}, {13, 14, 15}, {16, 17, 18} }

\* the statistics explored: the plausible ones, with the arguments of one
\* rule taking every combination of small values
StatVectors ==
  UNION { { [i \in 1..PLAYER_STATS_COUNT |->
               IF i \in G THEN f[i] ELSE PlausibleValues[i]] :
            f \in [G -> 0..MaxStatValue] } : G \in RuleArguments }

TimeText(hh, mm) == TimePrefix \o hh \o <<":">> \o mm \o <<":", "0", "0">>

\* the duration columns explored: none, 0, 1, 300 and 301 minutes
DurationTexts ==
  { Blank, TimeText(<<"0", "0">>, <<"0", "0">>), TimeText(<<"0", "0">>, <<"0", "1">>),
    TimeText(<<"0", "5">>, <<"0", "0">>), TimeText(<<"0", "5">>, <<"0", "1">>) }

\* the rows a generated statistics file is made of
StatsInputs ==
  StatsRows
  \cup { StatsRow(<<"1">>, <<"2">>, <<"1">>, <<"1">>, Texts(v), PlausibleStats, Time_1_30) :
           v \in StatVectors }
  \cup { StatsRow(<<"1">>, <<"2">>, <<"1">>, <<"1">>, PlausibleStats, Texts(v), Time_1_30) :
           v \in StatVectors }
  \cup { StatsRow(<<"1">>, <<"2">>, <<"1">>, <<"1">>, PlausibleStats, PlausibleStats, t) :
           t \in DurationTexts }

\* load() has read a games file of one row, which it skipped for its score
InitStats ==
  /\ pc = "stats"
  /\ error = ""
  /\ toursFile = << TourW, TourL, TourN, TourQ >>
  /\ id2playerinfo = PlayerMapper_load(PlayersFile).val
  /\ toursMap = TourMapper_load(toursFile, IDToNameMapper_load(CourtsFile, 1, 2, EmptyDict),
                                None, EmptyDict, EmptyDict).toursMap
  /\ roundMap = IDToNameMapper_load(RoundsFile, 1, 2, EmptyDict)
  /\ gamesRead = << GamesRow(<<"2">>, <<"1">>, <<"3">>, <<"2">>, S_6_4, MatchDate) >>
  /\ nStatsRead = 0
  /\ matchKeys = <<>>
  /\ matches = EmptyDict
  /\ stats = EmptyDict
  /\ dumpPos = 0
  /\ buf = <<>>
  /\ matchesWritten = 0
  /\ outfile = <<>>
  /\ scoreIn = <<>>
  /\ scoreOut = Raised
  /\ dateIn = <<>>
  /\ dateOut = Raised

\* validate() is called on a MatchStats that load() stored
ValidateAgain ==
  /\ pc = "stats"
  /\ \E k \in DOMAIN stats :
       LET v == MatchStats_validate(stats[k])
       IN  IF ~v.ok THEN
             /\ Abort("Exception: Repeated call to MatchStats.validate()")
             /\ stats' = stats
           ELSE
             /\ stats' = DictSet(stats, k, v.val)
             /\ UNCHANGED << pc, error >>
  /\ UNCHANGED << scoreVars, dateVars, providerVars, gamesRead, nStatsRead,
                  matchKeys, matches, dumpVars >>

\* the statistics file explored: its first row is any of StatsInputs, the
\* rows after it are rows of StatsRows
NextStats ==
  \/ \E elements \in (IF nStatsRead = 0 THEN StatsInputs ELSE StatsRows) :
       ReadStats(elements)
  \/ ValidateAgain

SpecStats == InitStats /\ [][NextStats]_vars

\* ------------------------------------------------------------------------
\* Claims about the statistics (specification SpecStats)
\* ------------------------------------------------------------------------

\* the entries of a suspect list
Entries(q) == {q[i] : i \in 1..Len(q)}

\* the statistic names a suspect list holds for one side
NamesOf(side, q) == {e[2] : e \in {x \in Entries(q) : Len(x) = 2 /\ x[1] = side}}

\* an entry of a suspect list that counts the entries after it
IsCountMarker(e) == e # <<>> /\ Last(e) = ":"

\* the suspect list one call of validate() leaves: the zero marker alone, or
\* one count marker followed by as many names as it counts
OneValidation(q) ==
  \/ q = << <<"0">> >>
  \/ /\ Len(q) >= 2
     /\ q[1] = IntToStr(Len(q) - 1) \o <<":">>
     /\ \A i \in 2..Len(q) : ~IsCountMarker(q[i]) /\ q[i] # <<"0">>

\* C12: validate() flags "Duration" exactly when the duration is missing or
\* above 300 minutes; a duration of 0 to 300 minutes is not flagged
C12_DurationFlag ==
  \A k \in DOMAIN stats :
    (<<"Duration">> \in Entries(stats[k].suspectStats))
      <=> (~stats[k].matchTime.some \/ stats[k].matchTime.val > MaxDuration)

\* C13: every MatchStats load() stores has been validated once, and a further
\* call of validate() on it raises and changes neither its suspect list nor
\* its validated flag
C13_ValidateOnce ==
  /\ [](\A k \in DOMAIN stats :
          stats[k].validated /\ OneValidation(stats[k].suspectStats))
  /\ [][(pc = "stats" /\ nStatsRead' = nStatsRead)
          => (stats' = stats /\ pc' = "aborted"
              /\ error' = "Exception: Repeated call to MatchStats.validate()")]_vars

\* validate() was called again on a stored MatchStats with suspects
C13_Witness ==
  /\ pc = "aborted"
  /\ error = "Exception: Repeated call to MatchStats.validate()"
  /\ \E k \in DOMAIN stats : Len(stats[k].suspectStats) >= 2

\* the names PlayerStats.validate() is to return, by the fixed rules
PrescribedNames(p) ==
  (IF p.firstServesIn >= p.firstServes THEN {"firstSvIn", "firstSvTot"} ELSE {})
  \cup (IF p.aces >= p.firstServesIn THEN {"aces"} ELSE {})
  \cup (IF p.doubleFaults > p.firstServes THEN {"doubleFaults"} ELSE {})
  \cup (IF p.firstServePtsWon > p.firstServesIn THEN {"firstSvPtsWon"} ELSE {})
  \cup (IF p.secondServePtsWon > p.firstServes - p.firstServesIn
        THEN {"secondSvPtsWon"} ELSE {})
  \cup (IF p.winners > p.totPtsWon THEN {"winners"} ELSE {})
  \cup (IF p.breakPtsWon > p.breakPts \/ p.breakPtsWon >= p.totPtsWon
        THEN {"breakPtsWon"} ELSE {})
  \cup (IF p.recvPtsWon > p.recvPts \/ p.recvPtsWon >= p.totPtsWon
        THEN {"recvPtsWon"} ELSE {})
  \cup (IF p.netApproachesWon > p.netApproaches \/ p.netApproachesWon >= p.totPtsWon
        THEN {"netApproachWon"} ELSE {})
  \cup (IF p.avgFirstServeKph >= p.fastestServeKph
        THEN {"avgFirstSvKph", "fastestServeKph"} ELSE {})
  \cup (IF p.avgSecondServeKph >= p.fastestServeKph
           \/ p.avgSecondServeKph > p.avgFirstServeKph
        THEN {"avgSecondSvKph", "fastestServeKph"} ELSE {})

\* C14: the names validate() returns for the winner's and for the loser's
\* statistics are exactly the names the fixed rules prescribe
C14_ValidateByRules ==
  \A k \in DOMAIN stats :
    /\ NamesOf("W", stats[k].suspectStats) = PrescribedNames(stats[k].winnerStats)
    /\ NamesOf("L", stats[k].suspectStats) = PrescribedNames(stats[k].loserStats)

\* statistics with firstServesIn = 10 and firstServes = 8 were validated and
\* both first-serve columns flagged
C14_Witness ==
  \E k \in DOMAIN stats :
    /\ stats[k].winnerStats.firstServesIn = 10
    /\ stats[k].winnerStats.firstServes = 8
    /\ {"firstSvIn", "firstSvTot"} \subseteq NamesOf("W", stats[k].suspectStats)

\* ------------------------------------------------------------------------
\* Dates and ages on their own, over a family of source dates: a PlayerInfo
\* is constructed from a date of birth, two Matches are given their dates,
\* and the player's age is asked as of each
\* ------------------------------------------------------------------------

TwoDigits(n) == << DigitChar(n \div 10), DigitChar(n % 10) >>

\* "MM/DD/YY 00:00:00"
SourceDate(mm, dd, yy) ==
  TwoDigits(mm) \o <<"/">> \o TwoDigits(dd) \o <<"/">> \o TwoDigits(yy) \o Midnight

\* game dates of every two-digit year
EveryYearDates ==
  { SourceDate(md[1], md[2], yy) : md \in { <<1, 1>>, <<12, 31>> }, yy \in 0..99 }

\* game dates around the pivot and the turn of the century
GameDates ==
  { SourceDate(md[1], md[2], yy) :
      md \in { <<1, 1>>, <<6, 25>>, <<12, 31>> }, yy \in {0, 14, 44, 45, 90, 99} }

\* dates of birth
BirthDates == { SourceDate(11, 2, yy) : yy \in {34, 44, 45, 85, 0} }

DateInputs ==
  { [dob |-> DobA, first |-> d, second |-> MatchDate] : d \in EveryYearDates }
  \cup { [dob |-> b, first |-> d, second |-> e] :
           b \in BirthDates, d \in GameDates, e \in GameDates }
  \cup { [dob |-> DobA, first |-> BadDate, second |-> MatchDate],
         [dob |-> BadDate, first |-> MatchDate, second |-> MatchDate] }

InitDates ==
  /\ pc = "start"
  /\ error = ""
  /\ toursFile = << TourW, TourL, TourN, TourQ >>
  /\ id2playerinfo = EmptyDict
  /\ toursMap = EmptyDict
  /\ roundMap = EmptyDict
  /\ gamesRead = <<>>
  /\ nStatsRead = 0
  /\ matchKeys = <<>>
  /\ matches = EmptyDict
  /\ stats = EmptyDict
  /\ dumpPos = 0
  /\ buf = <<>>
  /\ matchesWritten = 0
  /\ outfile = <<>>
  /\ scoreIn = <<>>
  /\ scoreOut = Raised
  /\ dateIn \in DateInputs
  /\ dateOut = Raised

\* PlayerInfo(...) is constructed and Match.setDate is called for two Matches:
\* a date of birth that does not convert raises, a game date that does not
\* leaves the Match's _date None
SetDates ==
  /\ pc = "start"
  /\ LET player == PlayerInfo(<<"1">>, <<"A">>, dateIn.dob)
         first  == convertOnCourtDateToYmd(dateIn.first)
         second == convertOnCourtDateToYmd(dateIn.second)
     IN  IF ~player.ok THEN
           /\ Abort("ValueError: PlayerInfo")
           /\ dateOut' = dateOut
         ELSE
           /\ pc' = "dated"
           /\ error' = error
           /\ dateOut' = [ok |-> TRUE, player |-> player.val,
                          first  |-> IF first.ok THEN Some(first.val) ELSE None,
                          second |-> IF second.ok THEN Some(second.val) ELSE None,
                          ages |-> <<>>]
  /\ UNCHANGED << scoreVars, dateIn, providerVars, loadVars, dumpVars >>

\* getAgeAsOf is called with the date of each Match: the days of the two
\* differences, or the exception raised
AgeAsOf ==
  /\ pc = "dated"
  /\ pc' = "aged"
  /\ dateOut' = [dateOut EXCEPT
                   !.ages = << getAgeAsOf(dateOut.player, dateOut.first),
                               getAgeAsOf(dateOut.player, dateOut.second) >>]
  /\ UNCHANGED << scoreVars, dateIn, error, providerVars, loadVars, dumpVars >>

NextDates == SetDates \/ AgeAsOf

SpecDates == InitDates /\ [][NextDates]_vars

\* ------------------------------------------------------------------------
\* Claims about dates and ages (specification SpecDates)
\* ------------------------------------------------------------------------

\* the calendar day of a "YYYY/MM/DD" text as one number, ordered as the days
YmdOrder(ymd) ==
  LET p == Split(ymd, "/")
  IN  DigitsVal(p[1]) * 10000 + DigitsVal(p[2]) * 100 + DigitsVal(p[3])

\* C15: the age of a player with a date of birth, as of any date, is not
\* negative, and as of a later date it is not smaller (the age is the number
\* of days divided by 365, so the days are compared)
C15_AgeNonNegativeMonotone ==
  (pc = "aged" /\ dateOut.ages[1].ok /\ dateOut.ages[2].ok)
  => /\ dateOut.ages[1].val >= 0
     /\ dateOut.ages[2].val >= 0
     /\ YmdOrder(dateOut.first.val) <= YmdOrder(dateOut.second.val)
          => dateOut.ages[1].val <= dateOut.ages[2].val

\* "MM/DD/YY ..." converted as the windowing prescribes
Windowed(d) ==
  LET p == Split(Head(Split(d, " ")), "/")
      y == DigitsVal(p[3])
  IN  IntToStr(IF y >= 45 THEN 1900 + y ELSE 2000 + y)
      \o <<"/">> \o p[1] \o <<"/">> \o p[2]

\* C16: a source date MM/DD/YY HH:MM:SS is converted to YYYY/MM/DD with the
\* same month and day, the year being 1900 + YY from 45 on and 2000 + YY
\* below 45
C16_DateWindowed ==
  pc \in {"dated", "aged"} =>
    /\ IsSourceDate(dateIn.dob) => dateOut.player.dob = Windowed(dateIn.dob)
    /\ IsSourceDate(dateIn.first) => dateOut.first = Some(Windowed(dateIn.first))
    /\ IsSourceDate(dateIn.second) => dateOut.second = Some(Windowed(dateIn.second))

\* the dates of 12/31/44 and 01/01/45 were converted, to 2044 and to 1945
C16_Witness ==
  /\ pc = "dated"
  /\ dateIn.first = SourceDate(12, 31, 44)
  /\ dateIn.second = SourceDate(1, 1, 45)
  /\ dateOut.first = Some(<<"2", "0", "4", "4", "/", "1", "2", "/", "3", "1">>)
  /\ dateOut.second = Some(<<"1", "9", "4", "5", "/", "0", "1", "/", "0", "1">>)

\* ------------------------------------------------------------------------
\* More claims about load() and dump() (specification Spec)
\* ------------------------------------------------------------------------

\* players_<gender>.csv as a dictionary of names
PlayerNames == [id \in {PlayersFile[i][1] : i \in 1..Len(PlayersFile)} |->
                  LastRowOf(PlayersFile, id)[2]]

\* the name of a doubles pairing
IsPairing(name) == \E i \in 1..Len(name) : name[i] = "/"

\* a summary row whose winner and loser are both doubles pairings
DoublesRow(row) ==
  /\ row[1] \in DOMAIN PlayerNames /\ IsPairing(PlayerNames[row[1]])
  /\ row[2] \in DOMAIN PlayerNames /\ IsPairing(PlayerNames[row[2]])

\* C17: a summary row whose winner and loser both have a name with the
\* pairing separator "/" is not stored by load() and not written by dump()
C17_NoDoublesStored ==
  \A i \in 1..Len(gamesRead) :
    DoublesRow(gamesRead[i]) =>
      /\ KeyText(gamesRead[i]) \notin DOMAIN matches
      /\ \A j \in 1..Len(matchKeys) : matchKeys[j] # KeyText(gamesRead[i])
      /\ \A j \in 1..Len(EmittedKeys) : EmittedKeys[j] # KeyText(gamesRead[i])

\* a dump that wrote a row, of a games file with a doubles row
C17_Witness ==
  /\ pc = "done"
  /\ DataRows # <<>>
  /\ \E i \in 1..Len(gamesRead) : DoublesRow(gamesRead[i])

\* the summary rows load() stored, in the order they were read
RECURSIVE AcceptedRows(_)
AcceptedRows(rows) ==
  IF rows = <<>> THEN <<>>
  ELSE (IF SummaryStep(Head(rows), id2playerinfo, toursMap, roundMap).kind = "store"
        THEN <<Head(rows)>> ELSE <<>>)
       \o AcceptedRows(Tail(rows))

\* the match columns dump() is to write for a stored summary row
MatchColumnsOf(row) ==
  Match_str(SummaryStep(row, id2playerinfo, toursMap, roundMap).match)

\* C20: the key list holds no MatchKey twice and is as long as the mapping
\* from keys to Matches, and the i-th row written has the match columns of
\* the i-th accepted summary row
C20_OneMatchPerKey ==
  /\ \A i, j \in 1..Len(matchKeys) : matchKeys[i] = matchKeys[j] => i = j
  /\ Len(matchKeys) = Cardinality(DOMAIN matches)
  /\ \A i \in 1..Len(DataRows) :
       MatchColumnsOf(AcceptedRows(gamesRead)[i]).ok
         => SubSeq(DataRows[i], 1, Len(MatchHeader))
              = MatchColumnsOf(AcceptedRows(gamesRead)[i]).val

\* ------------------------------------------------------------------------
\* More claims about the score parser (specification SpecScore)
\* ------------------------------------------------------------------------

\* C18: constructing a Match raises for every score text with fewer than two
\* set tokens
C18_IncompleteScoreRejected ==
  (pc = "constructed"
   /\ Cardinality({i \in 1..Len(SetTokensOf(scoreIn)) :
                     IsSetToken(SetTokensOf(scoreIn)[i])}) < 2)
  => ~scoreOut.ok

\* a Match was to be constructed from the score "6-4" and was not
C18_Witness == pc = "constructed" /\ scoreIn = S_6_4 /\ ~scoreOut.ok

\* ------------------------------------------------------------------------
\* The lines of the output file (specification Spec)
\* ------------------------------------------------------------------------

\* C21: when dump() has completed, the output file is the header line
\* followed by one line per key of the key list and nothing else, every line
\* has as many fields as the header, and matchesWritten is the length of the
\* key list
C21_HeaderAndOneLinePerKey ==
  pc = "done" =>
    /\ Len(outfile) = 1 + Len(matchKeys)
    /\ outfile[1] = outfileHeader
    /\ \A i \in 1..Len(outfile) : Len(outfile[i]) = nHeaderColumns
    /\ matchesWritten = Len(matchKeys)

\* ------------------------------------------------------------------------
\* The suspect list of a MatchStats (specification SpecStats)
\* ------------------------------------------------------------------------

\* nothing of a MatchStats is suspect: no statistic of either side by the
\* fixed rules, and the duration is there and at most 300 minutes
NothingSuspect(ms) ==
  /\ PrescribedNames(ms.winnerStats) = {}
  /\ PrescribedNames(ms.loserStats) = {}
  /\ ms.matchTime.some /\ ms.matchTime.val <= MaxDuration

\* the suspect list names no column twice after its first entry
NoColumnTwice(q) == \A i, j \in 2..Len(q) : q[i] = q[j] => i = j

\* C22: after validate() the suspect list is the single marker "0" exactly
\* when nothing is suspect; otherwise it is "k:" followed by the suspect
\* columns, each named once, k being the number of distinct suspect columns
C22_SuspectListCounted ==
  \A k \in DOMAIN stats :
    LET q == stats[k].suspectStats
    IN  /\ (q = << <<"0">> >>) <=> NothingSuspect(stats[k])
        /\ q # << <<"0">> >> =>
              /\ Len(q) >= 2
              /\ NoColumnTwice(q)
              /\ q[1] = IntToStr(Cardinality({q[i] : i \in 2..Len(q)})) \o <<":">>

====
